---- MODULE Spec2Model ----
(***************************************************************************)
(* A model of src/apis/gpt.py: GPTSession (tier selection by a bounded     *)
(* availability probe, cumulative cost accounting) and _GPTConversation    *)
(* (system message, transcript, the synchronous chat turn).                *)
(*                                                                         *)
(* The OpenAI backend is the environment: each request the code issues is  *)
(* answered by a response drawn from a small set.  Message contents are    *)
(* real strings, so len(m.content) is Len of the string.                   *)
(* Money is kept in fixed point: prices are in 1/1000 dollar per 1000      *)
(* tokens, CHARS_PER_TOKEN in tenths, amounts printed with three decimals  *)
(* are integers counting 1/1000 dollar.                                    *)
(***************************************************************************)
EXTENDS Integers, Sequences, FiniteSets, TLC

(* ------------------------------ bounds -------------------------------- *)
MaxConvs == 2
MaxChats == 3
MaxCostCalls == 3
MaxCostArg == 8
CostStride == 5
MaxSysConvs == 1
MaxExamples == 3

(* ------------------------- program constants -------------------------- *)
\* range(5) of the probe loop
ProbeAttempts == 5
\* src/constants.py: dollars per 1000 tokens (0.03, 0.06, 0.002, 0.002), times 1000
PRICING_GPT4_PROMPT == 30
PRICING_GPT4_GENERATION == 60
PRICING_GPT3_5_TURBO_PROMPT == 2
PRICING_GPT3_5_TURBO_GENERATION == 2
\* src/constants.py: 3.4 characters per token, times 10
CHARS_PER_TOKEN == 34

(* ------------------------------ inputs -------------------------------- *)
TaskDescriptions == {"add two numbers"}
TestDescriptions == {"1+1=2"}
Models == {"gpt-4", "gpt-3.5-turbo", "davinci"}
Prompts == {"hello", "world"}
Replies == {"reply1"}
\* what the backend answers to a probe request
ProbeResponses == {"ok", "RateLimitError", "InvalidRequestError", "APIError"}
\* what the backend answers to a chat request: a reply, or a failure
ChatResponses == [ok : {TRUE}, content : Replies] \cup [ok : {FALSE}, content : {"APIError"}]
ExampleLists == {<<"executor", "docarray", "client">>, <<"client">>}
Environments == SUBSET {"OPENAI_API_KEY", "VERBOSE"}

VARIABLES
    environ,        \* os.environ: the names that are set
    api_key,        \* openai.api_key has been set
    model,          \* the parameter (and local variable) model of __init__
    pc,             \* "new", "probing" (inside is_gpt4_available), "ready"
                    \* (__init__ returned), "raised" (__init__ raised)
    raised,         \* the exception the last call raised to its caller, or "none"
    session,        \* the attributes of the GPTSession object set so far
    probe_i,        \* the loop variable i of is_gpt4_available
    probes,         \* the backend's responses to the probe requests issued, in order
    warnings,       \* how often the downgrade warning was printed
    money_printed,  \* the totals cost_callback printed, in order (1/1000 dollar)
    conversations,  \* the _GPTConversation objects minted, in order
    requests        \* the chat calls made: conversation, prompt, the request's
                    \* messages and the backend's response, in order

vars == <<environ, api_key, model, pc, raised, session, probe_i, probes, warnings, money_printed,
          conversations, requests>>

NoAttributes == [a \in {} |-> 0]
HasAttr(a) == a \in DOMAIN session

(* --------------------------- pure functions ---------------------------- *)
\* round(x, 3) for x = n/d in units of 1/1000: the nearest integer to n/d,
\* a tie going to the even one (Python 3 rounds half to even; at an exact tie
\* the floating-point value of x decides, which first differs from this at
\* 850 characters, beyond the counts reached here)
Round(n, d) ==
    LET q == n \div d
        r == n % d
    IN  IF 2 * r < d THEN q
        ELSE IF 2 * r > d THEN q + 1
        ELSE IF q % 2 = 0 THEN q ELSE q + 1

\* calculate_money_spent cutting the digits off instead of rounding
calculate_money_spent_Truncate(num_chars, price) ==
    (num_chars * 10 * price) \div (CHARS_PER_TOKEN * 1000)

\* round(num_chars / CHARS_PER_TOKEN * price / 1000, 3), in 1/1000 dollar:
\* num_chars / (CHARS_PER_TOKEN/10) * (price/1000) / 1000 * 1000
calculate_money_spent(num_chars, price) ==
    Round(num_chars * 10 * price, CHARS_PER_TOKEN * 1000)

\* sum([len(m.content) for m in messages])
RECURSIVE SumLen(_)
SumLen(messages) ==
    IF messages = <<>> THEN 0
    ELSE Len(Head(messages).content) + SumLen(Tail(messages))

\* 'name' in system_definition_examples
InList(name, list) == \E i \in DOMAIN list : list[i] = name

\* the texts of src/options/generate/templates_system.py, abbreviated
executor_example == "EXECUTOR"
docarray_example == "DOCARRAY"
client_example == "CLIENT"
\* PromptTemplate.from_template(template_system_message_base).format(...)
FormatTemplate(task_description, test_description) ==
    "Task: " \o task_description \o " Test: " \o test_description

\* _create_system_message with elif in place of the second and third if
_create_system_message_Elif(task_description, test_description, system_definition_examples) ==
    LET m0 == FormatTemplate(task_description, test_description)
        m3 == IF InList("executor", system_definition_examples)
              THEN m0 \o "\n" \o executor_example
              ELSE IF InList("docarray", system_definition_examples)
              THEN m0 \o "\n" \o docarray_example
              ELSE IF InList("client", system_definition_examples)
              THEN m0 \o "\n" \o client_example ELSE m0
    IN  [role |-> "system", content |-> m3]

_create_system_message(task_description, test_description, system_definition_examples) ==
    LET m0 == FormatTemplate(task_description, test_description)
        m1 == IF InList("executor", system_definition_examples)
              THEN m0 \o "\n" \o executor_example ELSE m0
        m2 == IF InList("docarray", system_definition_examples)
              THEN m1 \o "\n" \o docarray_example ELSE m1
        m3 == IF InList("client", system_definition_examples)
              THEN m2 \o "\n" \o client_example ELSE m2
    IN  [role |-> "system", content |-> m3]

HumanMessage(content) == [role |-> "user", content |-> content]
AIMessage(content) == [role |-> "assistant", content |-> content]

(* ------------------------------ GPTSession ----------------------------- *)
\* ProbeStep with a for/else that returns False when the attempts run out
ProbeStep_ExhaustedFalse(resp, i) ==
    IF resp = "ok" THEN "True"
    ELSE IF resp = "RateLimitError"
         THEN IF i + 1 < ProbeAttempts THEN "continue" ELSE "False"
    ELSE IF resp = "InvalidRequestError" THEN "False"
    ELSE "raise"

\* ProbeStep without the outer except: InvalidRequestError propagates
ProbeStep_NoOuterExcept(resp, i) ==
    IF resp = "ok" THEN "True"
    ELSE IF resp = "RateLimitError"
         THEN IF i + 1 < ProbeAttempts THEN "continue" ELSE "True"
    ELSE "raise"

\* ProbeStep without the break: a success goes on to the next attempt
ProbeStep_NoBreak(resp, i) ==
    IF resp = "ok" \/ resp = "RateLimitError"
    THEN IF i + 1 < ProbeAttempts THEN "continue" ELSE "True"
    ELSE IF resp = "InvalidRequestError" THEN "False"
    ELSE "raise"

\* ProbeStep with while True in place of for i in range(5)
ProbeStep_RetryForever(resp, i) ==
    IF resp = "ok" THEN "True"
    ELSE IF resp = "RateLimitError" THEN "continue"
    ELSE IF resp = "InvalidRequestError" THEN "False"
    ELSE "raise"

\* What one pass of the probe loop does with the backend's response to the
\* request of attempt i: "continue" with the next attempt, or leave
\* is_gpt4_available with "True", "False" or the exception ("raise").
\* A success breaks out of the loop; a RateLimitError sleeps and continues,
\* and after the last attempt the loop ends and the function returns True;
\* only InvalidRequestError is caught by the outer try.
ProbeStep(resp, i) ==
    IF resp = "ok" THEN "True"
    ELSE IF resp = "RateLimitError"
         THEN IF i + 1 < ProbeAttempts THEN "continue" ELSE "True"
    ELSE IF resp = "InvalidRequestError" THEN "False"
    ELSE "raise"

\* SelectTier with the gpt-4 prices copied into the else branch
SelectTier_PremiumPricesInElse(s, m, available) ==
    IF m = "gpt-4" /\ available
    THEN s @@ [model_name |-> "gpt-4",
               pricing_prompt |-> PRICING_GPT4_PROMPT,
               pricing_generation |-> PRICING_GPT4_GENERATION,
               chars_prompt_so_far |-> 0,
               chars_generation_so_far |-> 0]
    ELSE s @@ [model_name |-> IF m = "gpt-4" THEN "gpt-3.5-turbo" ELSE m,
               pricing_prompt |-> PRICING_GPT4_PROMPT,
               pricing_generation |-> PRICING_GPT4_GENERATION,
               chars_prompt_so_far |-> 0,
               chars_generation_so_far |-> 0]

\* SelectTier without line 32: the requested name is kept on a downgrade
SelectTier_NoDowngrade(s, m, available) ==
    IF m = "gpt-4" /\ available
    THEN s @@ [model_name |-> "gpt-4",
               pricing_prompt |-> PRICING_GPT4_PROMPT,
               pricing_generation |-> PRICING_GPT4_GENERATION,
               chars_prompt_so_far |-> 0,
               chars_generation_so_far |-> 0]
    ELSE s @@ [model_name |-> m,
               pricing_prompt |-> PRICING_GPT3_5_TURBO_PROMPT,
               pricing_generation |-> PRICING_GPT3_5_TURBO_GENERATION,
               chars_prompt_so_far |-> 0,
               chars_generation_so_far |-> 0]

\* lines 25-37 of __init__, once the value of is_gpt4_available() is known
\* (available is not evaluated when model is not 'gpt-4')
SelectTier(s, m, available) ==
    IF m = "gpt-4" /\ available
    THEN s @@ [model_name |-> "gpt-4",
               pricing_prompt |-> PRICING_GPT4_PROMPT,
               pricing_generation |-> PRICING_GPT4_GENERATION,
               chars_prompt_so_far |-> 0,
               chars_generation_so_far |-> 0]
    ELSE s @@ [model_name |-> IF m = "gpt-4" THEN "gpt-3.5-turbo" ELSE m,
               pricing_prompt |-> PRICING_GPT3_5_TURBO_PROMPT,
               pricing_generation |-> PRICING_GPT3_5_TURBO_GENERATION,
               chars_prompt_so_far |-> 0,
               chars_generation_so_far |-> 0]

\* WarningsPrinted without the inner if: every else branch prints the warning
WarningsPrinted_NoInnerIf(m, available) ==
    IF ~(m = "gpt-4" /\ available) THEN 1 ELSE 0

\* print_colored('GPT-4 is not available. ...') happens in the else branch
\* when gpt-4 had been asked for
WarningsPrinted(m, available) ==
    IF ~(m = "gpt-4" /\ available) /\ m = "gpt-4" THEN 1 ELSE 0

\* configure_openai_api_key without the check of os.environ
KeyConfigured_NoCheck == TRUE

\* configure_openai_api_key raises when the variable is not in os.environ
KeyConfigured == "OPENAI_API_KEY" \in environ

\* GPTSession(task_description, test_description, model) up to the first
\* probe request, or to its end when no probe is made
GPTSession__init__(task_description, test_description, m) ==
    /\ pc = "new"
    /\ model' = m
    /\ LET s == [task_description |-> task_description,
                 test_description |-> test_description]
       IN  IF ~KeyConfigured
           THEN /\ pc' = "raised"
                /\ raised' = "Exception"
                /\ session' = s
                /\ UNCHANGED <<api_key, probe_i, warnings>>
           ELSE /\ api_key' = TRUE
                /\ raised' = "none"
                /\ IF m = "gpt-4"
                   THEN /\ pc' = "probing"
                        /\ probe_i' = 0
                        /\ session' = s
                        /\ UNCHANGED warnings
                   ELSE /\ pc' = "ready"
                        /\ session' = SelectTier(s, m, FALSE)
                        /\ warnings' = warnings + WarningsPrinted(m, FALSE)
                        /\ UNCHANGED probe_i
    /\ UNCHANGED <<environ, probes, money_printed, conversations, requests>>

\* one request of is_gpt4_available and the backend's response to it; when the
\* function returns, the rest of __init__ runs
is_gpt4_available(resp) ==
    /\ pc = "probing"
    /\ probes' = Append(probes, resp)
    /\ LET step == ProbeStep(resp, probe_i)
       IN  IF step = "continue"
           THEN /\ probe_i' = probe_i + 1
                /\ UNCHANGED <<pc, raised, session, warnings>>
           ELSE IF step = "raise"
           THEN /\ pc' = "raised"
                /\ raised' = resp
                /\ UNCHANGED <<probe_i, session, warnings>>
           ELSE /\ pc' = "ready"
                /\ session' = SelectTier(session, model, step = "True")
                /\ warnings' = warnings + WarningsPrinted(model, step = "True")
                /\ UNCHANGED <<probe_i, raised>>
    /\ UNCHANGED <<environ, api_key, model, money_printed, conversations, requests>>

\* cost_callback with = in place of += on the two counters
cost_callback_Assign(chars_prompt, chars_generation) ==
    LET p == chars_prompt
        g == chars_generation
        money_prompt == calculate_money_spent(p, session.pricing_prompt)
        money_generation == calculate_money_spent(g, session.pricing_generation)
    IN  /\ session' = [session EXCEPT !.chars_prompt_so_far = p,
                                      !.chars_generation_so_far = g]
        /\ money_printed' = Append(money_printed, money_prompt + money_generation)

\* cost_callback(chars_prompt, chars_generation)
cost_callback(chars_prompt, chars_generation) ==
    LET p == session.chars_prompt_so_far + chars_prompt
        g == session.chars_generation_so_far + chars_generation
        money_prompt == calculate_money_spent(p, session.pricing_prompt)
        money_generation == calculate_money_spent(g, session.pricing_generation)
    IN  /\ session' = [session EXCEPT !.chars_prompt_so_far = p,
                                      !.chars_generation_so_far = g]
        /\ money_printed' = Append(money_printed, money_prompt + money_generation)

\* get_conversation(system_definition_examples): _GPTConversation.__init__
\* reads os.environ['VERBOSE'] while building its arguments (KeyError when unset).
\* The field examples is no attribute of the object: it keeps the argument the
\* conversation was built from, for the properties of its system message.
get_conversation(system_definition_examples) ==
    /\ pc = "ready"
    /\ Len(conversations) < MaxConvs
    /\ IF "VERBOSE" \notin environ
       THEN /\ raised' = "KeyError"
            /\ UNCHANGED conversations
       ELSE /\ raised' = "none"
            /\ conversations' = Append(conversations,
                   [model |-> session.model_name,
                    messages |-> <<>>,
                    examples |-> system_definition_examples,
                    system_message |-> _create_system_message(
                        session.task_description, session.test_description,
                        system_definition_examples)])
    /\ UNCHANGED <<environ, api_key, model, pc, session, probe_i, probes, warnings,
                   money_printed, requests>>

(* --------------------------- _GPTConversation -------------------------- *)
\* ChatPayload sending the system message and the new prompt only
ChatPayload_NoHistory(conv, prompt) ==
    <<conv.system_message, HumanMessage(prompt)>>

\* messages = [self.system_message] + self.messages, after the append of line 108
ChatPayload(conv, prompt) ==
    <<conv.system_message>> \o Append(conv.messages, HumanMessage(prompt))

\* ChatMessages without the append of the user message
ChatMessages_NoUser(conv, prompt, resp) ==
    IF resp.ok
    THEN Append(conv.messages, AIMessage(resp.content))
    ELSE conv.messages

\* ChatMessages with the user message removed again when the backend fails
ChatMessages_Rollback(conv, prompt, resp) ==
    IF resp.ok
    THEN Append(Append(conv.messages, HumanMessage(prompt)), AIMessage(resp.content))
    ELSE conv.messages

\* ChatMessages with the request's list (system message first) kept as the
\* transcript
ChatMessages_StoresPayload(conv, prompt, resp) ==
    LET messages == <<conv.system_message>> \o Append(conv.messages, HumanMessage(prompt))
    IN  IF resp.ok THEN Append(messages, AIMessage(resp.content)) ELSE messages

\* self.messages when chat returns or raises
ChatMessages(conv, prompt, resp) ==
    IF resp.ok
    THEN Append(Append(conv.messages, HumanMessage(prompt)), AIMessage(resp.content))
    ELSE Append(conv.messages, HumanMessage(prompt))

\* ChatCallsCostCallback with the call in a finally clause
ChatCallsCostCallback_Always(resp) == TRUE

\* whether chat reaches line 116 and calls self.cost_callback
ChatCallsCostCallback(resp) == resp.ok

\* chat with messages a list shared by all conversations (a class attribute)
chat_SharedTranscript(c, prompt, resp) ==
    /\ pc = "ready"
    /\ c \in DOMAIN conversations
    /\ Len(requests) < MaxChats
    /\ LET conv == conversations[c]
           messages == ChatPayload(conv, prompt)
       IN  /\ requests' = Append(requests,
                  [conv |-> c, prompt |-> prompt, messages |-> messages,
                   response |-> resp])
           /\ IF ChatCallsCostCallback(resp)
              THEN cost_callback(SumLen(messages), Len(resp.content))
              ELSE UNCHANGED <<session, money_printed>>
           /\ raised' = IF resp.ok THEN "none" ELSE resp.content
           /\ conversations' = [k \in DOMAIN conversations |->
                  [conversations[k] EXCEPT !.messages = ChatMessages(conv, prompt, resp)]]
    /\ UNCHANGED <<environ, api_key, model, pc, probe_i, probes, warnings>>

\* conversations[c].chat(prompt), the backend answering resp
chat(c, prompt, resp) ==
    /\ pc = "ready"
    /\ c \in DOMAIN conversations
    /\ Len(requests) < MaxChats
    /\ LET conv == conversations[c]
           messages == ChatPayload(conv, prompt)
       IN  /\ requests' = Append(requests,
                  [conv |-> c, prompt |-> prompt, messages |-> messages,
                   response |-> resp])
           /\ IF ChatCallsCostCallback(resp)
              THEN cost_callback(SumLen(messages), Len(resp.content))
              ELSE UNCHANGED <<session, money_printed>>
           /\ raised' = IF resp.ok THEN "none" ELSE resp.content
           /\ conversations' = [conversations EXCEPT
                  ![c].messages = ChatMessages(conv, prompt, resp)]
    /\ UNCHANGED <<environ, api_key, model, pc, probe_i, probes, warnings>>

(* ---------------------------- specification --------------------------- *)
Init ==
    /\ environ \in Environments
    /\ api_key = FALSE
    /\ model = "none"
    /\ pc = "new"
    /\ raised = "none"
    /\ session = NoAttributes
    /\ probe_i = 0
    /\ probes = <<>>
    /\ warnings = 0
    /\ money_printed = <<>>
    /\ conversations = <<>>
    /\ requests = <<>>

Next ==
    \/ \E t \in TaskDescriptions, u \in TestDescriptions, m \in Models :
          GPTSession__init__(t, u, m)
    \/ \E resp \in ProbeResponses : is_gpt4_available(resp)
    \/ \E ex \in ExampleLists : get_conversation(ex)
    \/ \E c \in 1..MaxConvs, p \in Prompts, resp \in ChatResponses : chat(c, p, resp)

Spec == Init /\ [][Next]_vars

\* The accounting alone: a session constructed on either tier (premium after a
\* probe that succeeded at once, standard when gpt-3.5-turbo was asked for),
\* whose cost_callback is then called with character counts.
CostArgs == {k * CostStride : k \in 0..MaxCostArg}

CostInit ==
    /\ environ = {"OPENAI_API_KEY", "VERBOSE"}
    /\ api_key = TRUE
    /\ model \in {"gpt-4", "gpt-3.5-turbo"}
    /\ pc = "ready"
    /\ raised = "none"
    /\ session = SelectTier([task_description |-> "add two numbers",
                             test_description |-> "1+1=2"], model, TRUE)
    /\ probe_i = 0
    /\ probes = IF model = "gpt-4" THEN <<"ok">> ELSE <<>>
    /\ warnings = 0
    /\ money_printed = <<>>
    /\ conversations = <<>>
    /\ requests = <<>>

CostNext ==
    \E chars_prompt \in CostArgs, chars_generation \in CostArgs :
        /\ Len(money_printed) < MaxCostCalls
        /\ cost_callback(chars_prompt, chars_generation)
        /\ UNCHANGED <<environ, api_key, model, pc, raised, probe_i, probes, warnings,
                       conversations, requests>>

CostSpec == CostInit /\ [][CostNext]_vars

\* The system message alone: a constructed session with any of a few
\* descriptions, minting conversations from every list of at most MaxExamples
\* example names, in any order and with repetitions.
ExampleNames == {"executor", "docarray", "client"}
AllExampleLists == UNION {[1..n -> ExampleNames] : n \in 0..MaxExamples}
SysTaskDescriptions == {"add two numbers", "{x}"}
SysTestDescriptions == {"1+1=2", ""}

SysInit ==
    /\ environ = {"OPENAI_API_KEY", "VERBOSE"}
    /\ api_key = TRUE
    /\ model \in {"gpt-4", "gpt-3.5-turbo"}
    /\ pc = "ready"
    /\ raised = "none"
    /\ \E t \in SysTaskDescriptions, u \in SysTestDescriptions :
          session = SelectTier([task_description |-> t, test_description |-> u],
                               model, TRUE)
    /\ probe_i = 0
    /\ probes = IF model = "gpt-4" THEN <<"ok">> ELSE <<>>
    /\ warnings = 0
    /\ money_printed = <<>>
    /\ conversations = <<>>
    /\ requests = <<>>

SysNext ==
    \E ex \in AllExampleLists :
        /\ Len(conversations) < MaxSysConvs
        /\ get_conversation(ex)

SysSpec == SysInit /\ [][SysNext]_vars

(* ------------------------------- claims -------------------------------- *)
Last(seq) == seq[Len(seq)]
Premium ==
    /\ HasAttr("model_name") /\ session.model_name = "gpt-4"
    /\ session.pricing_prompt = PRICING_GPT4_PROMPT
    /\ session.pricing_generation = PRICING_GPT4_GENERATION
Standard ==
    /\ HasAttr("model_name") /\ session.model_name = "gpt-3.5-turbo"
    /\ session.pricing_prompt = PRICING_GPT3_5_TURBO_PROMPT
    /\ session.pricing_generation = PRICING_GPT3_5_TURBO_GENERATION
\* the probe got n rate-limit signals and nothing else so far
RateLimitedTimes(n) ==
    /\ Len(probes) = n
    /\ \A i \in 1..n : probes[i] = "RateLimitError"
\* the probe got rate-limit signals and then, as its last response, last
EndedWith(last) ==
    /\ probes # <<>>
    /\ Last(probes) = last
    /\ \A i \in 1..(Len(probes) - 1) : probes[i] = "RateLimitError"

\* C1 as stated: premium requested and all 5 probe attempts rate-limited =>
\* the session ends up on the standard tier with standard pricing.
C1_ExhaustedIsStandard ==
    (model = "gpt-4" /\ RateLimitedTimes(ProbeAttempts)) =>
        (pc = "ready" /\ Standard)

\* C1 amended: premium requested and all 5 probe attempts rate-limited =>
\* construction completes without raising, the probe counts as available: the
\* session is on the premium tier with premium pricing and no downgrade
\* warning is printed.
C1_ExhaustedIsPremium ==
    (model = "gpt-4" /\ RateLimitedTimes(ProbeAttempts)) =>
        (pc = "ready" /\ Premium /\ warnings = 0)

C1_Witness ==
    model = "gpt-4" /\ RateLimitedTimes(ProbeAttempts) /\ pc = "ready"

\* C7: premium requested and the probe got k rate-limit signals (k in 0..4)
\* followed by an InvalidRequestError => construction completes without
\* raising, the tier and pricing are standard, exactly one warning is printed.
C7_RejectionFallsBack ==
    (model = "gpt-4" /\ EndedWith("InvalidRequestError")) =>
        /\ Len(probes) - 1 \in 0..(ProbeAttempts - 1)
        /\ pc = "ready"
        /\ Standard
        /\ warnings = 1

C7_Witness ==
    /\ model = "gpt-4" /\ EndedWith("InvalidRequestError")
    /\ Len(probes) = ProbeAttempts
    /\ pc = "ready"

\* C8: premium requested and a probe request succeeded (at attempt k <= 5 after
\* k-1 rate-limit signals) => the tier and pricing are premium, no warning is
\* printed, and the successful request is the last probe request issued.
C8_SuccessIsPremium ==
    (model = "gpt-4" /\ \E i \in DOMAIN probes : probes[i] = "ok") =>
        /\ EndedWith("ok")
        /\ Len(probes) <= ProbeAttempts
        /\ pc = "ready"
        /\ Premium
        /\ warnings = 0

C8_Witness ==
    /\ model = "gpt-4" /\ EndedWith("ok") /\ Len(probes) = 3
    /\ requests # <<>>

\* C9: the credential variable is absent and construction was called => it
\* raised the configuration error, no probe or chat request was issued, and
\* no tier, pricing or counter attribute exists.
C9_MissingKeyRaisesFirst ==
    ("OPENAI_API_KEY" \notin environ /\ pc # "new") =>
        /\ pc = "raised" /\ raised = "Exception"
        /\ probes = <<>> /\ requests = <<>> /\ conversations = <<>>
        /\ ~api_key
        /\ DOMAIN session \cap {"model_name", "pricing_prompt", "pricing_generation",
                                "chars_prompt_so_far", "chars_generation_so_far"} = {}

C9_Witness ==
    "OPENAI_API_KEY" \notin environ /\ pc = "raised" /\ model = "gpt-4"

\* the calls made on conversation c, in order
CallsOn(c, reqs) == SelectSeq(reqs, LAMBDA r : r.conv = c)
AllOk(reqs) == \A i \in DOMAIN reqs : reqs[i].response.ok
\* a step of chat: the only operation that adds to the call log
ChatStep == Len(requests') = Len(requests) + 1

\* C2: every chat(p) appends the user entry holding p to the transcript, and
\* after it, when the backend call succeeded, the assistant entry holding the
\* reply, and nothing else; while all calls on a conversation succeeded its
\* transcript has 2 entries per call, the k-th call's at 2k-1 and 2k.
C2_ChatAppends ==
    [][ChatStep =>
        LET r == requests'[Len(requests')]
            before == conversations[r.conv].messages
            after == conversations'[r.conv].messages
            calls == CallsOn(r.conv, requests')
        IN  /\ after = before \o <<HumanMessage(r.prompt)>> \o
                   (IF r.response.ok THEN <<AIMessage(r.response.content)>> ELSE <<>>)
            /\ AllOk(calls) =>
                   /\ Len(after) = 2 * Len(calls)
                   /\ \A k \in DOMAIN calls :
                         /\ after[2 * k - 1] = HumanMessage(calls[k].prompt)
                         /\ after[2 * k] = AIMessage(calls[k].response.content)
      ]_vars

C2_Witness ==
    \E c \in DOMAIN conversations :
        /\ Len(CallsOn(c, requests)) = 2
        /\ AllOk(CallsOn(c, requests))
        /\ Len(conversations[c].messages) = 4

\* C3: the messages of every chat request are the system message, then the
\* whole transcript as it was before the call, then the new user message; the
\* system message is first and occurs once.
C3_FullHistorySent ==
    [][ChatStep =>
        LET r == requests'[Len(requests')]
            conv == conversations[r.conv]
        IN  /\ r.messages = <<conv.system_message>> \o conv.messages \o
                                <<HumanMessage(r.prompt)>>
            /\ r.messages[1].role = "system"
            /\ Cardinality({i \in DOMAIN r.messages : r.messages[i].role = "system"}) = 1
      ]_vars

\* the scenario of the spec: chat("hello") answered reply1, then chat("world")
C3_Witness ==
    /\ Len(requests) >= 2
    /\ requests[1].conv = requests[2].conv
    /\ requests[2].messages = <<conversations[requests[2].conv].system_message,
                                HumanMessage("hello"), AIMessage("reply1"),
                                HumanMessage("world")>>

RECURSIVE SentChars(_)
\* the characters of all messages sent in the requests reqs
SentChars(reqs) ==
    IF reqs = <<>> THEN 0
    ELSE SumLen(Head(reqs).messages) + SentChars(Tail(reqs))
RECURSIVE ReceivedChars(_)
\* the characters of all replies received to the requests reqs
ReceivedChars(reqs) ==
    IF reqs = <<>> THEN 0
    ELSE (IF Head(reqs).response.ok THEN Len(Head(reqs).response.content) ELSE 0)
         + ReceivedChars(Tail(reqs))
Succeeded(reqs) == SelectSeq(reqs, LAMBDA r : r.response.ok)

\* C4 as stated: the counters equal the characters of all messages sent in
\* requests so far (of failed calls too) and of all replies received so far.
C4_CountersCountAllRequests ==
    HasAttr("chars_prompt_so_far") =>
        /\ session.chars_prompt_so_far = SentChars(requests)
        /\ session.chars_generation_so_far = ReceivedChars(requests)

\* C4 amended: the counters never decrease, and they equal the characters of
\* all messages sent in the requests of the chat calls that succeeded so far
\* and of all replies received so far; the request of a failed call is not
\* counted.
C4_CountersCountSucceededRequests ==
    [][HasAttr("chars_prompt_so_far")' =>
        /\ session'.chars_prompt_so_far = SentChars(Succeeded(requests'))
        /\ session'.chars_generation_so_far = ReceivedChars(requests')
        /\ HasAttr("chars_prompt_so_far") =>
               /\ session'.chars_prompt_so_far >= session.chars_prompt_so_far
               /\ session'.chars_generation_so_far >= session.chars_generation_so_far
      ]_vars

C4_Witness ==
    /\ Len(requests) = 3
    /\ requests[1].response.ok /\ ~requests[2].response.ok /\ requests[3].response.ok
    /\ session.chars_prompt_so_far = SentChars(Succeeded(requests))
    /\ session.chars_prompt_so_far < SentChars(requests)

\* C5: between chat calls every user entry of a transcript is followed by an
\* assistant entry, and the roles alternate user, assistant, ...
C5_TranscriptAlternates ==
    \A c \in DOMAIN conversations :
        LET t == conversations[c].messages
        IN  \A i \in DOMAIN t :
               /\ t[i].role = (IF i % 2 = 1 THEN "user" ELSE "assistant")
               /\ t[i].role = "user" => (i < Len(t) /\ t[i + 1].role = "assistant")

\* C6: a chat whose backend call fails raises the failure after that one
\* request, leaves the user message in the transcript, appends no assistant
\* message and does not touch the session's counters or print a total; and
\* the request of a chat that follows a failed one on the same conversation
\* ends with the failed call's user message and then the new one.
C6_FailureLeavesUserMessage ==
    [][ChatStep =>
        LET r == requests'[Len(requests')]
            before == conversations[r.conv].messages
            after == conversations'[r.conv].messages
            earlier == CallsOn(r.conv, requests)
            n == Len(r.messages)
        IN  /\ ~r.response.ok =>
                   /\ raised' = r.response.content
                   /\ after = Append(before, HumanMessage(r.prompt))
                   /\ session' = session
                   /\ money_printed' = money_printed
            /\ (earlier # <<>> /\ ~Last(earlier).response.ok) =>
                   /\ r.messages[n - 1] = HumanMessage(Last(earlier).prompt)
                   /\ r.messages[n] = HumanMessage(r.prompt)
      ]_vars

C6_Witness ==
    /\ Len(requests) >= 2
    /\ requests[1].conv = requests[2].conv
    /\ ~requests[1].response.ok
    /\ requests[2].messages[3] = HumanMessage(requests[2].prompt)
    /\ requests[2].messages[2] = HumanMessage(requests[1].prompt)
    /\ requests[2].prompt # requests[1].prompt

\* m is an integer nearest to n/d (either neighbour at a tie)
IsNearest(m, n, d) == 2 * (m * d - n) <= d /\ 2 * (n - m * d) <= d
\* a pool's cost before rounding, as a fraction: PoolNum(chars, price) / PoolDen
\* is chars / CHARS_PER_TOKEN * price / 1000 in 1/1000 dollar
PoolNum(chars, price) == chars * 10 * price
PoolDen == CHARS_PER_TOKEN * 1000

\* C10 as stated: the total printed is the sum of the two unrounded pool costs,
\* rounded once to 3 decimals.
C10_TotalRoundedOnce ==
    money_printed # <<>> =>
        IsNearest(Last(money_printed),
                  PoolNum(session.chars_prompt_so_far, session.pricing_prompt)
                  + PoolNum(session.chars_generation_so_far, session.pricing_generation),
                  PoolDen)

\* C10 amended: each pool's cost is rounded to 3 decimals on its own, and the
\* total printed is the sum of the two rounded pool costs.
C10_TotalOfRoundedPools ==
    money_printed # <<>> =>
        \E a \in 0..Last(money_printed) :
            /\ IsNearest(a, PoolNum(session.chars_prompt_so_far,
                                    session.pricing_prompt), PoolDen)
            /\ IsNearest(Last(money_printed) - a,
                         PoolNum(session.chars_generation_so_far,
                                 session.pricing_generation), PoolDen)

\* both pools cost something and the two roundings differ from the single one
C10_Witness ==
    /\ money_printed # <<>>
    /\ Last(money_printed) >= 2
    /\ ~C10_TotalRoundedOnce

\* C11: cost_callback is invoked once by every chat whose backend call
\* returned and by no other: the number of totals printed equals the number of
\* successful chat calls; the invocation adds to the counters the length of
\* the system message plus the lengths of the transcript entries sent, the new
\* user message among them and the reply not, and the length of the reply.
C11_CallbackOncePerCompletedTurn ==
    [][/\ Len(money_printed') = Len(Succeeded(requests'))
       /\ ChatStep =>
            LET r == requests'[Len(requests')]
                conv == conversations[r.conv]
            IN  IF r.response.ok
                THEN /\ Len(money_printed') = Len(money_printed) + 1
                     /\ session'.chars_prompt_so_far - session.chars_prompt_so_far
                          = Len(conv.system_message.content) + SumLen(conv.messages)
                            + Len(r.prompt)
                     /\ session'.chars_generation_so_far
                          - session.chars_generation_so_far = Len(r.response.content)
                ELSE /\ money_printed' = money_printed
                     /\ session' = session
      ]_vars

C11_Witness ==
    /\ Len(requests) = 3
    /\ ~requests[2].response.ok
    /\ Len(Succeeded(requests)) = 2
    /\ Len(money_printed) = 2

\* the fragment of an example name
Fragment(name) ==
    CASE name = "executor" -> executor_example
      [] name = "docarray" -> docarray_example
      [] name = "client" -> client_example
FixedOrder == <<"executor", "docarray", "client">>
RECURSIVE FragmentsOf(_, _)
\* the fragments of the names of order that are in named, in that order, each
\* on a new line
FragmentsOf(order, named) ==
    IF order = <<>> THEN ""
    ELSE (IF Head(order) \in named THEN "\n" \o Fragment(Head(order)) ELSE "")
         \o FragmentsOf(Tail(order), named)
Named(list) == {list[i] : i \in DOMAIN list}

\* C12: the system message of a conversation built from a list of example
\* names is the rendered template followed by the fragments of exactly the
\* names in the list, each once, in the order executor, docarray, client,
\* whatever the order (and repetitions) of the list.
C12_SystemMessageFragments ==
    \A c \in DOMAIN conversations :
        LET conv == conversations[c]
        IN  conv.system_message =
              [role |-> "system",
               content |-> FormatTemplate(session.task_description,
                                          session.test_description)
                           \o FragmentsOf(FixedOrder, Named(conv.examples))]

C12_Witness ==
    \E c \in DOMAIN conversations :
        /\ conversations[c].examples = <<"client", "executor">>
        /\ conversations[c].system_message.content =
              FormatTemplate(session.task_description, session.test_description)
              \o "\n" \o executor_example \o "\n" \o client_example

\* the tier and the pricing pair of a constructed session stay as they are
TierUnchanged ==
    pc = "ready" =>
        /\ session'.model_name = session.model_name
        /\ session'.pricing_prompt = session.pricing_prompt
        /\ session'.pricing_generation = session.pricing_generation

\* C13 as stated: after construction the tier is premium or standard whatever
\* string was requested, and no later call changes the tier or its pricing.
C13_TierIsPremiumOrStandard ==
    [][/\ pc' = "ready" => session'.model_name \in {"gpt-4", "gpt-3.5-turbo"}
       /\ TierUnchanged
      ]_vars

\* C13 amended: after construction the tier is gpt-4 when gpt-4 was requested
\* and the probe did not end in InvalidRequestError, gpt-3.5-turbo when gpt-4
\* was requested and it did, and otherwise the requested string itself,
\* whatever it is; no later call changes the tier or its pricing.
C13_TierIsRequestedOrDowngraded ==
    [][/\ pc' = "ready" =>
            session'.model_name =
                (IF model' # "gpt-4" THEN model'
                 ELSE IF Last(probes') = "InvalidRequestError" THEN "gpt-3.5-turbo"
                 ELSE "gpt-4")
       /\ TierUnchanged
      ]_vars

C13_Witness ==
    /\ pc = "ready" /\ model = "davinci" /\ session.model_name = "davinci"
    /\ \E c \in DOMAIN conversations : conversations[c].model = "davinci"
    /\ requests # <<>>

\* C14: the probe issues at most 5 requests, each but the first right after a
\* rate-limit signal; it goes on exactly while the last response was a
\* rate-limit signal and fewer than 5 requests were issued, so it ends at the
\* first success, at the first other rejection, or with the 5th request; and
\* a chat call issues one request and raises its failure.
C14_ProbeBoundedNoChatRetry ==
    [][/\ Len(probes') <= ProbeAttempts
       /\ \A i \in 1..(Len(probes') - 1) : probes'[i] = "RateLimitError"
       /\ pc' = "probing" => Len(probes') < ProbeAttempts
       /\ probes' # probes =>
            /\ pc = "probing"
            /\ probes' = Append(probes, Last(probes'))
            /\ pc' = "probing" <=>
                   (Last(probes') = "RateLimitError" /\ Len(probes') < ProbeAttempts)
       /\ requests' # requests =>
            /\ Len(requests') = Len(requests) + 1
            /\ probes' = probes
            /\ ~Last(requests').response.ok => raised' = Last(requests').response.content
      ]_vars

C14_Witness ==
    /\ Len(probes) = ProbeAttempts /\ pc = "ready"
    /\ requests # <<>> /\ ~requests[1].response.ok

IsPrefix(a, b) == Len(a) <= Len(b) /\ SubSeq(b, 1, Len(a)) = a

\* C15: whatever is called, every conversation keeps its system message, which
\* is the one built at its construction; its transcript holds user and
\* assistant entries only; and the transcript before a step is a prefix of
\* the transcript after it.
C15_SystemMessageFixedTranscriptAppendOnly ==
    [][/\ \A c \in DOMAIN conversations :
            /\ c \in DOMAIN conversations'
            /\ conversations'[c].system_message = conversations[c].system_message
            /\ IsPrefix(conversations[c].messages, conversations'[c].messages)
       /\ \A c \in DOMAIN conversations' :
            LET conv == conversations'[c]
            IN  /\ conv.system_message =
                      _create_system_message(session'.task_description,
                                             session'.test_description, conv.examples)
                /\ \A i \in DOMAIN conv.messages :
                      conv.messages[i].role \in {"user", "assistant"}
      ]_vars

C15_Witness ==
    \E c \in DOMAIN conversations :
        /\ Len(CallsOn(c, requests)) = 3
        /\ ~AllOk(CallsOn(c, requests))
        /\ Len(conversations[c].messages) = 5

RECURSIVE PromptCharsOfFirst(_, _)
\* the characters sent in the successful requests of conversations 1..n
PromptCharsOfFirst(n, reqs) ==
    IF n = 0 THEN 0
    ELSE SentChars(Succeeded(CallsOn(n, reqs))) + PromptCharsOfFirst(n - 1, reqs)
RECURSIVE ReplyCharsOfFirst(_, _)
\* the characters of the replies received by conversations 1..n
ReplyCharsOfFirst(n, reqs) ==
    IF n = 0 THEN 0
    ELSE ReceivedChars(CallsOn(n, reqs)) + ReplyCharsOfFirst(n - 1, reqs)

\* C16: a chat on one conversation leaves every other conversation as it is;
\* a new conversation is added behind the others with an empty transcript;
\* and the session's counters are the sums, over all its conversations, of
\* the characters of their successful turns.
C16_ConversationsIndependent ==
    [][/\ ChatStep =>
            \A c \in DOMAIN conversations :
                c # Last(requests').conv => conversations'[c] = conversations[c]
       /\ Len(conversations') # Len(conversations) =>
            /\ conversations' = Append(conversations, Last(conversations'))
            /\ Last(conversations').messages = <<>>
       /\ HasAttr("chars_prompt_so_far")' =>
            /\ session'.chars_prompt_so_far =
                  PromptCharsOfFirst(Len(conversations'), requests')
            /\ session'.chars_generation_so_far =
                  ReplyCharsOfFirst(Len(conversations'), requests')
      ]_vars

\* two conversations with different system messages, chats interleaved
C16_Witness ==
    /\ Len(conversations) = 2
    /\ conversations[1].system_message # conversations[2].system_message
    /\ Len(requests) = 3
    /\ requests[1].conv = 1 /\ requests[2].conv = 2 /\ requests[3].conv = 1
    /\ requests[1].response.ok /\ requests[2].response.ok
    /\ Len(conversations[2].messages) = 2

\* C17: when the model requested is not gpt-4, construction issues no probe
\* request, prints no warning and (the key being set) ends with the standard
\* prices; and a warning is printed, once, only when gpt-4 was requested and
\* the probe ended in InvalidRequestError.
C17_NoProbeUnlessPremiumRequested ==
    /\ (pc # "new" /\ model # "gpt-4") =>
           /\ probes = <<>>
           /\ warnings = 0
           /\ "OPENAI_API_KEY" \in environ =>
                  /\ pc = "ready"
                  /\ session.pricing_prompt = PRICING_GPT3_5_TURBO_PROMPT
                  /\ session.pricing_generation = PRICING_GPT3_5_TURBO_GENERATION
    /\ warnings > 0 =>
           /\ warnings = 1
           /\ model = "gpt-4"
           /\ EndedWith("InvalidRequestError")

C17_Witness ==
    /\ model = "gpt-3.5-turbo" /\ pc = "ready"
    /\ probes = <<>> /\ warnings = 0
    /\ requests # <<>>

\* C18: a constructed session has the gpt-4 prices exactly when its tier is
\* gpt-4 and the gpt-3.5-turbo prices otherwise, and every conversation's
\* model is the tier of the session.
C18_PricingMatchesTier ==
    /\ pc = "ready" =>
           /\ session.model_name = "gpt-4" <=>
                  (/\ session.pricing_prompt = PRICING_GPT4_PROMPT
                   /\ session.pricing_generation = PRICING_GPT4_GENERATION)
           /\ session.model_name # "gpt-4" =>
                  (/\ session.pricing_prompt = PRICING_GPT3_5_TURBO_PROMPT
                   /\ session.pricing_generation = PRICING_GPT3_5_TURBO_GENERATION)
    /\ \A c \in DOMAIN conversations :
           conversations[c].model = session.model_name

C18_Witness ==
    /\ model = "gpt-4" /\ Standard
    /\ \E c \in DOMAIN conversations :
          /\ conversations[c].model = "gpt-3.5-turbo"
          /\ conversations[c].messages # <<>>

====
